---- MODULE Spec2Model ----
(***************************************************************************)
(* Model of module/resnet_tiny_imagenet.py: the ResNet backbone composer,  *)
(* the Gumbel-softmax architecture sampler and the checkpoint-combination  *)
(* loader.                                                                  *)
(*                                                                          *)
(* Python strings that the code slices or matches (state-dict keys, block  *)
(* names) are tuples of one-character strings, so that str.startswith and  *)
(* k[n:] are computed as the code computes them.  A tensor stored in a     *)
(* checkpoint file is the pair <<path of the file, key it is stored        *)
(* under>>: two stored tensors are equal only if they are the same entry   *)
(* of the same file.                                                        *)
(***************************************************************************)
EXTENDS Integers, Sequences, FiniteSets, TLC

VARIABLES
    net,      \* ResNet.__init__ in progress: the modules built so far
    params,   \* the live model's state_dict: key -> tensor
    alphas,   \* self.alphas
    gumbel,   \* self.gumbel
    store,    \* the checkpoint files under weight_root: candidate id -> contents
    pc,       \* "init" inside the constructor, then "built"; for a constructed
              \* model "idle", or "loop" inside the for-loop of a load call
    cur,      \* the load call in progress or last finished: op, arguments, index
    idx,      \* the loop variable idx of the load call
    status,   \* "none", "running", "ok" or "error" for the call in cur
    reads,    \* the paths handed to torch.load by the call in cur, in order
    base,     \* the state_dict right after the baseline load of the call in cur
    loads,    \* number of load calls started
    ret,      \* the value returned by the last finished load call
    done,     \* the last load call that completed before the call in cur
              \* started, and the state_dict it left
    again,    \* the last arch_weights call had the logits and the cat flag of
              \* the arch_weights call before it
    last      \* the last arch_weights call: logits, cat, result

vars == <<net, params, alphas, gumbel, store, pc, cur, idx, status, reads, base,
          loads, ret, done, again, last>>

None == "None"

\* no load call yet, nothing returned yet, no arch_weights call yet
NoCall == [op |-> "none", folder |-> None, name |-> None, comb |-> <<>>]
NoReturn == [op |-> "none", value |-> <<>>]
NoWeights == [valid |-> FALSE, alphas |-> <<>>, cat |-> FALSE, value |-> <<>>]

---------------------------------------------------------------------------
(* Bounds of the model *)

\* number of candidates per decision point (num_ops is 100 in the source)
NumOps == 2
\* number of distinct samples torch.randn / gumbel_like may draw
MaxSeed == 2
\* largest number of blocks per stage handed to the constructor
MaxBlocks == 2
\* largest number of load calls made on one model
MaxLoads == 2
\* largest input height/width for which layer shapes are compared
MaxSize == 9

---------------------------------------------------------------------------
(* Python string operations *)

\* str.startswith
StartsWith(s, p) == Len(s) >= Len(p) /\ SubSeq(s, 1, Len(p)) = p

\* the slice s[n:]
Slice(s, n) == SubSeq(s, n + 1, Len(s))

---------------------------------------------------------------------------
(* Names *)

layer == <<"l", "a", "y", "e", "r">>
layer1 == layer \o <<"1">>
layer2 == layer \o <<"2">>
layer3 == layer \o <<"3">>
layer4 == layer \o <<"4">>
fc == <<"f", "c">>
Dot == <<".">>

\* self.block_names
block_names == <<layer1, layer2, layer3, layer4, fc>>

\* number of decision points, one per entry of block_names
K == 5

bn1_bias == <<"b", "n", "1", ".", "b", "i", "a", "s">>
weight == <<"w", "e", "i", "g", "h", "t">>
bias == <<"b", "i", "a", "s">>
first_bn1_bias == <<"0", ".">> \o bn1_bias
tracked == <<"0", ".", "b", "n", "1", ".", "n", "u", "m", "_", "b", "a", "t", "c", "h", "e", "s",
             "_", "t", "r", "a", "c", "k", "e", "d">>

\* Parameter names of the module registered under attribute `name`, as
\* nn.Module.state_dict names them: a representative parameter per module.
LocalKeys(name) ==
    IF name = fc THEN {weight, bias} ELSE {first_bn1_bias}

\* state_dict keys of the whole model: the stem and the five block groups.
\* alphas and gumbel are plain tensors, not parameters: they have no key.
ModelKeys ==
    {<<"c", "o", "n", "v", "1", ".">> \o weight, bn1_bias}
        \cup UNION {{block_names[b] \o Dot \o k : k \in LocalKeys(block_names[b])} : b \in 1..K}

\* keys of the parameters that belong to block group `name`
GroupKeys(name) == {k \in ModelKeys : StartsWith(k, name \o Dot)}

StemKeys == ModelKeys \ UNION {GroupKeys(block_names[b]) : b \in 1..K}

---------------------------------------------------------------------------
(* The checkpoint store and torch.load *)

\* self.weight_root and a second folder a caller may name
WeightRoot == "weights"
OtherRoot == "other"
Folders == {WeightRoot, OtherRoot}

\* self.model_name
model_name == "resnet50_ti"

\* candidate id of the baseline checkpoint read by load_gumbel_weight
GumbelBaseline == 42
\* candidate id of the baseline checkpoint read by load_combination_weight
CombinationBaseline == 50

\* "{}/{}_cross_entropy_{}.model".format(folder, name, id): the path is
\* determined by, and determines, the three values formatted into it
saved_model_name(folder, name, id) == <<folder, name, id>>

\* ids of the files that may exist under weight_root
FileIds == (1..NumOps) \cup {GumbelBaseline, CombinationBaseline}

\* a key torch >= 0.4.1 saves for every BatchNorm2d and older models lack
ExtraKey == layer1 \o Dot \o tracked

\* What a checkpoint file may hold: every key of the model ("full"), these
\* and one more ("extra"), all but layer2's and fc.bias ("lacking"), or the
\* file cannot be read ("missing").
ShapeKeys(shape) ==
    CASE shape = "full" -> ModelKeys
      [] shape = "extra" -> ModelKeys \cup {ExtraKey}
      [] shape = "lacking" -> ModelKeys \ (GroupKeys(layer2) \cup {fc \o Dot \o bias})
      [] OTHER -> {}

ShapesOf(id) ==
    IF id = CombinationBaseline THEN {"full", "extra", "lacking", "missing"}
    ELSE IF id = GumbelBaseline THEN {"full", "lacking", "missing"}
    ELSE {"extra", "lacking", "missing"}

InRoot(path) == path[1] = WeightRoot /\ path[2] = model_name /\ path[3] \in FileIds

\* The files never change.  A file under weight_root that no call has read
\* yet is "unknown" in store: what it holds is settled when it is first
\* read, so that one behaviour stands for every store that agrees with it on
\* the files read.  The other folder holds every file of FileIds, complete;
\* no other file exists.
Shapes(st, path) ==
    IF InRoot(path)
    THEN IF st[path[3]] = "unknown" THEN ShapesOf(path[3]) ELSE {st[path[3]]}
    ELSE IF path[1] = OtherRoot /\ path[2] = model_name /\ path[3] \in FileIds
    THEN {"full"}
    ELSE {"missing"}

\* the store once the file at path was found to hold `shape`
Learn(st, path, shape) == IF InRoot(path) THEN [st EXCEPT ![path[3]] = shape] ELSE st

\* what a file already read holds, by what store st knows
ShapeIn(st, path) == CHOOSE shape \in Shapes(st, path) : TRUE
FileShape(path) == ShapeIn(store, path)

Readable(path) == FileShape(path) # "missing"

\* torch.load(path) for a readable file holding `shape`: the saved state_dict
torch_load(path, shape) == [k \in ShapeKeys(shape) |-> <<path, k>>]

---------------------------------------------------------------------------
(* nn.Module.load_state_dict and the dictionary operations of the loaders *)

\* dict.update: entries of m replace entries of d
update(d, m) == [k \in DOMAIN d \cup DOMAIN m |-> IF k \in DOMAIN m THEN m[k] ELSE d[k]]

\* module.load_state_dict(state_dict, strict) for the module whose parameters
\* are the keys of p starting with `prefix` (<<>> for the whole model):
\* every expected key found in state_dict is copied, also when the call then
\* raises; with strict, missing or unexpected keys raise afterwards.
load_state_dict(p, prefix, state_dict, strict) ==
    LET expected == {Slice(k, Len(prefix)) : k \in {x \in DOMAIN p : StartsWith(x, prefix)}}
        missing == expected \ DOMAIN state_dict
        unexpected == DOMAIN state_dict \ expected
    IN [params |-> [k \in DOMAIN p |->
                       IF StartsWith(k, prefix) /\ Slice(k, Len(prefix)) \in DOMAIN state_dict
                       THEN state_dict[Slice(k, Len(prefix))]
                       ELSE p[k]],
        ok |-> ~strict \/ (missing = {} /\ unexpected = {})]

\* the cut of the layer groups applied to every group
PrefixLen_layer(block_name) == 7

\* number of characters cut from a key of block group block_name
PrefixLen(block_name) == IF block_name = fc THEN 3 ELSE 7

\* {k[n:]: v for k, v in model_dict.items() if k.startswith(block_name)}
modified_dict(model_dict, block_name) ==
    LET from == {k \in DOMAIN model_dict : StartsWith(k, block_name)}
        n == PrefixLen(block_name)
    IN [s \in {Slice(k, n) : k \in from} |->
           model_dict[CHOOSE k \in from : Slice(k, n) = s]]

\* the whole model as the module loaded into
Target_model(block_name) == <<>>

\* the module a group checkpoint is loaded into: getattr(self, block_name),
\* whose parameters are the model's keys under "<block_name>."
Target(block_name) == block_name \o Dot

\* strict flag of the baseline load of each entry point
StrictGumbel == FALSE
\* a baseline load of load_combination_weight that is not strict
StrictCombination_off == FALSE
StrictCombination == TRUE
\* a per-group load that is strict
StrictGroup_on == TRUE
\* strict flag of the per-group load
StrictGroup == FALSE

\* The body of the for-loop over block_names, on a readable checkpoint:
\* the state_dict after getattr(self, block_name).load_state_dict(...).
load_block(p, block_name, path, shape) ==
    LET model_dict == torch_load(path, shape)
        merged == update(model_dict, modified_dict(model_dict, block_name))
    IN load_state_dict(p, Target(block_name), merged, StrictGroup)

\* the loop body with self.load_state_dict in place of getattr(self, block_name)
load_block_into_model(p, block_name, path, shape) ==
    LET model_dict == torch_load(path, shape)
        merged == update(model_dict, modified_dict(model_dict, block_name))
    IN load_state_dict(p, <<>>, merged, StrictGroup)

\* the loop body as written in load_gumbel_weight and in load_combination_weight
load_gumbel_block(p, block_name, path, shape) == load_block(p, block_name, path, shape)
load_combination_block(p, block_name, path, shape) == load_block(p, block_name, path, shape)

---------------------------------------------------------------------------
(* The architecture sampler *)

Rows == 0..(K - 1)
Ops == 0..(NumOps - 1)

\* 1e-3 * torch.randn(k, num_ops): one of MaxSeed samples of logits
randn(seed) == [i \in Rows |-> [j \in Ops |-> IF (i + seed) % NumOps = j THEN 1 ELSE 0]]

\* gumbel_like(self.alphas): one of MaxSeed samples of noise, shaped like alphas
gumbel_like(seed) == [i \in Rows |-> [j \in Ops |-> IF ((i \div 2) + seed) % NumOps = j THEN 1 ELSE 0]]

AlphaSamples == {randn(s) : s \in 0..(MaxSeed - 1)}
GumbelSamples == {gumbel_like(s) : s \in 0..(MaxSeed - 1)}

\* 1 / self._tau, for a tau whose reciprocal is a whole number
TauInv == 2

RECURSIVE Exp2(_)
Exp2(n) == IF n <= 0 THEN 1 ELSE 2 * Exp2(n - 1)

RECURSIVE Sum(_, _)
Sum(f, S) == IF S = {} THEN 0 ELSE LET x == CHOOSE x \in S : TRUE IN f[x] + Sum(f, S \ {x})

\* utils.gumbel_softmax_v1(alphas, tau, dim=-1, g): softmax((alphas + g) / tau)
\* along the candidate axis; a weight is the fraction <<numerator, denominator>>,
\* with powers of two for the exponential
gumbel_softmax(a, g) ==
    [i \in Rows |->
        LET e == [j \in Ops |-> Exp2(TauInv * (a[i][j] + g[i][j]))]
        IN [j \in Ops |-> <<e[j], Sum(e, Ops)>>]]

\* x >= y for fractions
Geq(x, y) == x[1] * y[2] >= y[1] * x[2]

\* torch.cat(weights): the rows one after the other
cat_rows(w) == [n \in 0..(K * NumOps - 1) |-> w[n \div NumOps][n % NumOps]]

\* noise drawn anew by every call
Noise_fresh(g) == GumbelSamples

\* the noise tensors arch_weights may hand to gumbel_softmax: self.gumbel
Noise(g) == {g}

\* what arch_weights(cat) returns when the noise handed over is g
arch_weights_value(a, g, cat) ==
    IF cat THEN cat_rows(gumbel_softmax(a, g)) ELSE gumbel_softmax(a, g)

\* torch.argmax(weights, -1): per row the first index of a maximal weight
argmax(w) ==
    [i \in Rows |-> CHOOSE j \in Ops :
        /\ \A j2 \in Ops : Geq(w[i][j], w[i][j2])
        /\ \A j2 \in Ops : j2 < j => ~Geq(w[i][j2], w[i][j])]

---------------------------------------------------------------------------
(* Operations of a constructed model *)

\* the tensors of a freshly constructed model
InitialParams == [k \in ModelKeys |-> <<"init", k>>]

\* number of output classes
num_classes == 200

\* combinations a caller may pass, one candidate index per block group: the
\* arg-max combination of the weights the sampler yields, and the combination
\* that names the file of the baseline checkpoint for every group
Combinations ==
    {argmax(gumbel_softmax(alphas, gumbel)), [i \in Rows |-> CombinationBaseline - 1]}

\* model names a caller may pass
Names == {model_name}

\* the candidate index itself as the id
GumbelId_zero_based(index, i) == index[i]
\* candidate id of the group checkpoint load_gumbel_weight reads at position i
GumbelId(index, i) == index[i] + 1

\* the candidate index itself as the id
CombinationId_zero_based(combination, i) == combination[i]
\* candidate id of the group checkpoint load_combination_weight reads at
\* position i
CombinationId(combination, i) == combination[i] + 1

\* forward(x) on a batch of n images: reads the parameters, writes none of
\* the tensors of the state_dict keys modelled, nor the logits or the noise
forward(n) ==
    /\ pc = "idle"
    /\ UNCHANGED vars

\* returns [self.alphas]
arch_parameters ==
    /\ pc = "idle"
    /\ UNCHANGED vars

\* the caller's optimizer writes new logits through the handle that
\* arch_parameters returned
optimizer_step ==
    /\ pc = "idle"
    /\ alphas' \in AlphaSamples \ {alphas}
    /\ UNCHANGED <<net, params, gumbel, store, pc, cur, idx, status, reads, base,
                   loads, ret, done, again, last>>

arch_weights(smooth, cat) ==
    /\ pc = "idle"
    /\ \E g \in Noise(gumbel) :
          LET weights == arch_weights_value(alphas, g, cat)
          IN last' = [valid |-> TRUE, alphas |-> alphas, cat |-> cat, value |-> weights]
    /\ again' = (last.valid /\ last.alphas = alphas /\ last.cat = cat)
    /\ UNCHANGED <<net, params, alphas, gumbel, store, pc, cur, idx, status, reads, base,
                   loads, ret, done>>

load_gumbel_weight ==
    /\ pc = "idle"
    /\ loads < MaxLoads
    /\ loads' = loads + 1
    /\ LET path == saved_model_name(WeightRoot, model_name, GumbelBaseline)
       IN \E g \in Noise(gumbel), shape \in Shapes(store, path) :
             LET weights == arch_weights_value(alphas, g, FALSE)
                 index == argmax(weights)
                 r == load_state_dict(params, <<>>, torch_load(path, shape), StrictGumbel)
             IN /\ last' = [valid |-> TRUE, alphas |-> alphas, cat |-> FALSE,
                            value |-> weights]
                /\ cur' = [op |-> "load_gumbel_weight", folder |-> WeightRoot,
                           name |-> model_name, comb |-> index]
                /\ reads' = <<path>>
                /\ store' = Learn(store, path, shape)
                /\ IF shape = "missing"
                   THEN params' = params /\ pc' = "idle" /\ status' = "error"
                   ELSE /\ params' = r.params
                        /\ IF r.ok THEN pc' = "loop" /\ status' = "running"
                                   ELSE pc' = "idle" /\ status' = "error"
    /\ base' = params'
    /\ idx' = 0
    /\ ret' = NoReturn
    /\ again' = (last.valid /\ last.alphas = alphas /\ last.cat = FALSE)
    /\ done' = IF status = "ok" THEN [call |-> cur, params |-> params] ELSE done
    /\ UNCHANGED <<net, alphas, gumbel>>

load_gumbel_weight_loop ==
    /\ pc = "loop"
    /\ cur.op = "load_gumbel_weight"
    /\ LET block_name == block_names[idx + 1]
           path == saved_model_name(WeightRoot, model_name, GumbelId(cur.comb, idx))
       IN \E shape \in Shapes(store, path) :
             LET r == load_gumbel_block(params, block_name, path, shape)
             IN /\ reads' = Append(reads, path)
                /\ store' = Learn(store, path, shape)
                /\ IF shape = "missing"
                   THEN params' = params /\ pc' = "idle" /\ status' = "error" /\ idx' = idx
                        /\ ret' = ret
                   ELSE /\ params' = r.params
                        /\ IF ~r.ok
                           THEN pc' = "idle" /\ status' = "error" /\ idx' = idx
                                /\ ret' = ret
                           ELSE IF idx + 1 < Len(block_names)
                           THEN pc' = "loop" /\ status' = status /\ idx' = idx + 1
                                /\ ret' = ret
                           ELSE pc' = "idle" /\ status' = "ok" /\ idx' = idx
                                /\ ret' = [op |-> "load_gumbel_weight", value |-> cur.comb]
    /\ UNCHANGED <<net, alphas, gumbel, cur, base, loads, done, again, last>>

load_combination_weight(combination, weight_folder, name) ==
    /\ pc = "idle"
    /\ loads < MaxLoads
    /\ loads' = loads + 1
    /\ LET path == saved_model_name(weight_folder, name, CombinationBaseline)
       IN \E shape \in Shapes(store, path) :
             LET r == load_state_dict(params, <<>>, torch_load(path, shape), StrictCombination)
             IN /\ cur' = [op |-> "load_combination_weight", folder |-> weight_folder,
                           name |-> name, comb |-> combination]
                /\ reads' = <<path>>
                /\ store' = Learn(store, path, shape)
                /\ IF shape = "missing"
                   THEN params' = params /\ pc' = "idle" /\ status' = "error"
                   ELSE /\ params' = r.params
                        /\ IF r.ok THEN pc' = "loop" /\ status' = "running"
                                   ELSE pc' = "idle" /\ status' = "error"
    /\ base' = params'
    /\ idx' = 0
    /\ ret' = NoReturn
    /\ done' = IF status = "ok" THEN [call |-> cur, params |-> params] ELSE done
    /\ UNCHANGED <<net, alphas, gumbel, again, last>>

load_combination_weight_loop ==
    /\ pc = "loop"
    /\ cur.op = "load_combination_weight"
    /\ LET block_name == block_names[idx + 1]
           path == saved_model_name(cur.folder, cur.name, CombinationId(cur.comb, idx))
       IN \E shape \in Shapes(store, path) :
             LET r == load_combination_block(params, block_name, path, shape)
             IN /\ reads' = Append(reads, path)
                /\ store' = Learn(store, path, shape)
                /\ IF shape = "missing"
                   THEN params' = params /\ pc' = "idle" /\ status' = "error" /\ idx' = idx
                        /\ ret' = ret
                   ELSE /\ params' = r.params
                        /\ IF ~r.ok
                           THEN pc' = "idle" /\ status' = "error" /\ idx' = idx
                                /\ ret' = ret
                           ELSE IF idx + 1 < Len(block_names)
                           THEN pc' = "loop" /\ status' = status /\ idx' = idx + 1
                                /\ ret' = ret
                           ELSE pc' = "idle" /\ status' = "ok" /\ idx' = idx
                                /\ ret' = [op |-> "load_combination_weight", value |-> <<>>]
    /\ UNCHANGED <<net, alphas, gumbel, cur, base, loads, done, again, last>>

\* the state every specification starts from, but for the logits, the noise
\* and the store
Fresh ==
    /\ net = None
    /\ params = InitialParams
    /\ pc = "idle"
    /\ cur = NoCall
    /\ idx = 0
    /\ status = "none"
    /\ reads = <<>>
    /\ base = InitialParams
    /\ loads = 0
    /\ ret = NoReturn
    /\ again = FALSE
    /\ last = NoWeights
    /\ done = [call |-> NoCall, params |-> InitialParams]

\* ResNet.__init__ has run: fresh tensors, logits and noise drawn once; the
\* checkpoint files are all there and complete
Init ==
    /\ Fresh
    /\ alphas \in AlphaSamples
    /\ gumbel \in GumbelSamples
    /\ store = [id \in FileIds |-> IF id \in 1..NumOps THEN "extra" ELSE "full"]

\* ResNet.__init__ has run; nothing is known of the checkpoint files
InitLoad ==
    /\ Fresh
    /\ alphas \in AlphaSamples
    /\ gumbel \in GumbelSamples
    /\ store = [id \in FileIds |-> "unknown"]

Load ==
    \/ load_gumbel_weight
    \/ load_gumbel_weight_loop
    \/ \E c \in Combinations, f \in Folders, n \in Names : load_combination_weight(c, f, n)
    \/ load_combination_weight_loop

Next ==
    \/ \E n \in 1..2 : forward(n)
    \/ arch_parameters
    \/ optimizer_step
    \/ \E smooth \in BOOLEAN, cat \in BOOLEAN : arch_weights(smooth, cat)
    \/ Load

\* every operation, on a model whose checkpoint files are complete
Spec == Init /\ [][Next]_vars

NextLoad ==
    \/ \E n \in 1..2 : forward(n)
    \/ Load

\* the load calls, whatever the checkpoint files hold
SpecLoad == InitLoad /\ [][NextLoad]_vars

---------------------------------------------------------------------------
(* The backbone composer: ResNet.__init__ and _make_layer *)

\* nn.Conv2d(in, out, kernel_size, stride, padding), bias=False.  A
\* downsample path is the tuple of its convolution (the BatchNorm2d after it
\* keeps the shape); downsample=None is the empty tuple.
Conv2d(in, out, kernel_size, stride, padding) ==
    [in |-> in, out |-> out, kernel_size |-> kernel_size, stride |-> stride,
     padding |-> padding]

\* a 3x3 convolution without padding
conv3x3_unpadded(in_planes, out_planes, stride) == Conv2d(in_planes, out_planes, 3, stride, 0)

\* 3x3 convolution with padding
conv3x3(in_planes, out_planes, stride) == Conv2d(in_planes, out_planes, 3, stride, 1)

expansion(block) == IF block = "BasicBlock" THEN 1 ELSE 4

\* BasicBlock(inplanes, planes, stride, downsample)
BasicBlock(inplanes, planes, stride, downsample) ==
    [variant |-> "BasicBlock", inplanes |-> inplanes, stride |-> stride,
     convs |-> <<conv3x3(inplanes, planes, stride), conv3x3(planes, planes, 1)>>,
     downsample |-> downsample]

\* Bottleneck(inplanes, planes, stride, downsample)
Bottleneck(inplanes, planes, stride, downsample) ==
    [variant |-> "Bottleneck", inplanes |-> inplanes, stride |-> stride,
     convs |-> <<Conv2d(inplanes, planes, 1, 1, 0), Conv2d(planes, planes, 3, stride, 1),
                 Conv2d(planes, planes * 4, 1, 1, 0)>>,
     downsample |-> downsample]

NewBlock(block, inplanes, planes, stride, downsample) ==
    IF block = "BasicBlock" THEN BasicBlock(inplanes, planes, stride, downsample)
    ELSE Bottleneck(inplanes, planes, stride, downsample)

\* the stage width without the variant's expansion
InplanesAfter_unexpanded(block, planes) == planes

\* self.inplanes after the first block of a stage is appended
InplanesAfter(block, planes) == planes * expansion(block)

\* _make_layer(block, planes, blocks, stride) with self.inplanes = inplanes:
\* the stage built and the new self.inplanes
make_layer(inplanes, block, planes, blocks, stride) ==
    LET downsample ==
            IF stride # 1 \/ inplanes # planes * expansion(block)
            THEN <<Conv2d(inplanes, planes * expansion(block), 1, stride, 0)>>
            ELSE <<>>
        after == InplanesAfter(block, planes)
    IN [inplanes |-> after,
        stage |-> <<NewBlock(block, inplanes, planes, stride, downsample)>>
                     \o [i \in 1..(blocks - 1) |-> NewBlock(block, after, planes, 1, <<>>)]]

\* planes and stride of the four _make_layer calls of the constructor
StagePlanes == <<64, 128, 256, 512>>
StageStride == <<1, 2, 2, 2>>

\* output size of nn.AdaptiveAvgPool2d(2)
PoolSize == 2

\* in_features of self.fc
FcIn(block) == 512 * expansion(block) * 4

\* the constructor calls _make_layer for the next stage
init_make_layer ==
    /\ pc = "init"
    /\ Len(net.stages) < Len(StagePlanes)
    /\ LET n == Len(net.stages) + 1
           r == make_layer(net.inplanes, net.block, StagePlanes[n], net.layers[n],
                           StageStride[n])
       IN net' = [net EXCEPT !.inplanes = r.inplanes, !.stages = Append(@, r.stage)]
    /\ UNCHANGED <<params, alphas, gumbel, store, pc, cur, idx, status, reads, base,
                   loads, ret, done, again, last>>

\* the constructor builds the pooling and the linear head
init_head ==
    /\ pc = "init"
    /\ Len(net.stages) = Len(StagePlanes)
    /\ net' = [net EXCEPT !.avgpool = PoolSize,
                          !.fc = [in_features |-> FcIn(net.block),
                                  out_features |-> num_classes]]
    /\ pc' = "built"
    /\ UNCHANGED <<params, alphas, gumbel, store, cur, idx, status, reads, base,
                   loads, ret, done, again, last>>

Blocks == {"BasicBlock", "Bottleneck"}

\* ResNet.__init__(block, layers) has built the stem: self.inplanes = 64
InitBuild ==
    /\ \E block \in Blocks, layers \in [1..4 -> 1..MaxBlocks] :
          net = [block |-> block, layers |-> layers, inplanes |-> 64,
                 conv1 |-> Conv2d(3, 64, 3, 1, 1), stages |-> <<>>,
                 avgpool |-> 0, fc |-> [in_features |-> 0, out_features |-> 0]]
    /\ params = InitialParams
    /\ alphas = randn(0)
    /\ gumbel = gumbel_like(0)
    /\ store = [id \in FileIds |-> "unknown"]
    /\ pc = "init"
    /\ cur = NoCall
    /\ idx = 0
    /\ status = "none"
    /\ reads = <<>>
    /\ base = InitialParams
    /\ loads = 0
    /\ ret = NoReturn
    /\ again = FALSE
    /\ last = NoWeights
    /\ done = [call |-> NoCall, params |-> InitialParams]

NextBuild == init_make_layer \/ init_head

\* the constructor, for every block variant and stage sizes up to MaxBlocks
SpecBuild == InitBuild /\ [][NextBuild]_vars

---------------------------------------------------------------------------
(* Shapes of the constructed blocks *)

\* height (= width) of the output of convolution c on an input of height h
ConvOut(h, c) == ((h + 2 * c.padding - c.kernel_size) \div c.stride) + 1

\* height of the output of the convolutions cs applied one after the other
RECURSIVE ConvsOut(_, _)
ConvsOut(h, cs) == IF cs = <<>> THEN h ELSE ConvsOut(ConvOut(h, Head(cs)), Tail(cs))

\* channels leaving the main path of block b
OutPlanes(b) == b.convs[Len(b.convs)].out

\* <<channels, height>> leaving the main path and the downsample path of b
MainShape(b, h) == <<OutPlanes(b), ConvsOut(h, b.convs)>>
DownShape(b, h) == <<b.downsample[Len(b.downsample)].out, ConvsOut(h, b.downsample)>>

\* positions <<stage, block>> of the blocks built so far
Built == {q \in (1..4) \X (1..MaxBlocks) : q[1] <= Len(net.stages) /\ q[2] <= Len(net.stages[q[1]])}
BlockAt(q) == net.stages[q[1]][q[2]]

\* input sizes at which shapes are compared
Sizes == 1..MaxSize

\* C6: a Basic block has no downsample path exactly when its stride is 1 and
\* its input channel count equals its output channel count; otherwise it has
\* one, and for every input size the downsample path's output has the channel
\* count and the spatial size of the main path's output.
C6_DownsampleMatchesMainPath ==
    \A q \in Built :
        LET b == BlockAt(q)
        IN b.variant = "BasicBlock" =>
              IF b.stride = 1 /\ b.inplanes = OutPlanes(b)
              THEN b.downsample = <<>>
              ELSE /\ b.downsample # <<>>
                   /\ \A h \in Sizes : DownShape(b, h) = MainShape(b, h)

\* a finished Basic network with a block that has a downsample path with
\* stride 2, and a block that has none
C6_Witness ==
    /\ pc = "built"
    /\ net.block = "BasicBlock"
    /\ \E q \in Built : BlockAt(q).downsample # <<>> /\ BlockAt(q).stride = 2
    /\ \E q \in Built : BlockAt(q).downsample = <<>>

\* C7: every block's input channel count is the output channel count of the
\* block before it (the stem's 64 for the first); after a stage of width w
\* the running channel count is w * expansion; the head's input feature count
\* is 512 * expansion * 4, which is the number of features the pooled and
\* flattened output of the last stage has.
C7_ChannelsChain ==
    /\ \A q \in Built :
          BlockAt(q).inplanes =
              IF q[2] > 1 THEN OutPlanes(BlockAt(<<q[1], q[2] - 1>>))
              ELSE IF q[1] > 1
                   THEN OutPlanes(BlockAt(<<q[1] - 1, Len(net.stages[q[1] - 1])>>))
                   ELSE net.conv1.out
    /\ \A n \in 1..Len(net.stages) :
          OutPlanes(BlockAt(<<n, Len(net.stages[n])>>)) = StagePlanes[n] * expansion(net.block)
    /\ Len(net.stages) >= 1 =>
          net.inplanes = StagePlanes[Len(net.stages)] * expansion(net.block)
    /\ pc = "built" =>
          /\ net.fc.in_features = 512 * expansion(net.block) * 4
          /\ net.fc.in_features =
                OutPlanes(BlockAt(<<4, Len(net.stages[4])>>)) * net.avgpool * net.avgpool

\* a finished Bottleneck network with a stage of more than one block
C7_Witness ==
    /\ pc = "built"
    /\ net.block = "Bottleneck"
    /\ \E n \in 1..4 : Len(net.stages[n]) >= 2

---------------------------------------------------------------------------
(* The load call in cur *)

\* the block group of loop position i
GroupName(i) == block_names[i + 1]

\* the baseline checkpoint and the checkpoint of the candidate chosen for
\* loop position i, for the call in cur
BaselinePath ==
    saved_model_name(cur.folder, cur.name,
                     IF cur.op = "load_gumbel_weight" THEN GumbelBaseline
                     ELSE CombinationBaseline)
CandidatePath(i) == saved_model_name(cur.folder, cur.name, cur.comb[i] + 1)

\* the state_dict saved in a readable file that has been read
Stored(path) == torch_load(path, FileShape(path))

\* every group checkpoint of the call in cur holds all parameters of its group
GroupsComplete ==
    \A i \in Rows : GroupKeys(GroupName(i)) \subseteq DOMAIN Stored(CandidatePath(i))

\* C1: after a successful load_combination_weight whose baseline checkpoint
\* holds every expected key and whose group checkpoints hold their group's
\* parameters, every parameter of group i equals the entry stored for it in
\* the checkpoint of candidate combination[i] + 1, and differs from the
\* baseline checkpoint's entry unless that checkpoint is the baseline file.
C1_GroupsFromOwnCheckpoint ==
    (/\ status = "ok"
     /\ cur.op = "load_combination_weight"
     /\ ModelKeys \subseteq DOMAIN Stored(BaselinePath)
     /\ GroupsComplete)
        => \A i \in Rows : \A k \in GroupKeys(GroupName(i)) :
              /\ params[k] = Stored(CandidatePath(i))[k]
              /\ CandidatePath(i) # BaselinePath => params[k] # Stored(BaselinePath)[k]

\* a successful combination load that took two groups from different
\* candidates, none of them the baseline file
C1_Witness ==
    /\ status = "ok"
    /\ cur.op = "load_combination_weight"
    /\ GroupsComplete
    /\ \E i, j \in Rows : CandidatePath(i) # CandidatePath(j)
    /\ \A i \in Rows : CandidatePath(i) # BaselinePath

\* C2: load_gumbel_weight returns one index per block group, each in
\* [0, num_ops - 1] and the first arg-max of that decision point's weights;
\* the group checkpoint it reads for group i has id index[i] + 1, which lies
\* in [1, num_ops].
C2_ArgmaxCombination ==
    cur.op = "load_gumbel_weight" =>
        /\ \A n \in 2..Len(reads) :
              /\ reads[n] = saved_model_name(WeightRoot, model_name, cur.comb[n - 2] + 1)
              /\ reads[n][3] \in 1..NumOps
        /\ status = "ok" =>
              /\ ret.op = "load_gumbel_weight"
              /\ DOMAIN ret.value = Rows
              /\ ret.value = cur.comb
              /\ Len(reads) = K + 1
              /\ \A i \in Rows :
                    /\ ret.value[i] \in Ops
                    /\ \A j \in Ops : Geq(last.value[i][ret.value[i]], last.value[i][j])
                    /\ \A j \in Ops : j < ret.value[i] =>
                          ~Geq(last.value[i][j], last.value[i][ret.value[i]])

\* a successful load_gumbel_weight that returned a combination naming two
\* different candidates
C2_Witness ==
    /\ status = "ok"
    /\ cur.op = "load_gumbel_weight"
    /\ \E i, j \in Rows : ret.value[i] # ret.value[j]

\* C3: no operation changes the noise tensor drawn at construction, and an
\* arch_weights call made with the logits and the cat flag of the call before
\* it returns the same weights.
C3_NoiseFixed ==
    [][/\ gumbel' = gumbel
       /\ (last.valid /\ last'.valid /\ last'.alphas = last.alphas /\ last'.cat = last.cat)
             => last'.value = last.value]_vars

\* two arch_weights(cat=True) calls in a row with the same logits, after a
\* load call
C3_Witness ==
    /\ again
    /\ last.cat
    /\ loads >= 1

\* C4: when the baseline checkpoint of load_combination_weight is readable
\* but its key set is not the model's, the call fails at the baseline load:
\* no group checkpoint is read and the state_dict is the one the baseline
\* load left.
C4_StrictBaselineFatal ==
    (/\ cur.op = "load_combination_weight"
     /\ Readable(BaselinePath)
     /\ DOMAIN Stored(BaselinePath) # ModelKeys)
        => /\ status = "error"
           /\ pc = "idle"
           /\ reads = <<BaselinePath>>
           /\ params = base

\* a combination load stopped by a baseline checkpoint with one key too many
C4_Witness ==
    /\ cur.op = "load_combination_weight"
    /\ status = "error"
    /\ FileShape(BaselinePath) = "extra"

\* C5: a group load from a readable checkpoint never fails: a parameter of
\* the target group that the checkpoint lacks keeps its value, and every
\* value that changes is the checkpoint's entry for a parameter of the target
\* group, so that the checkpoint's other keys have no effect.
C5_GroupLoadTolerant ==
    [][pc = "loop" =>
          LET path == reads'[Len(reads')]
              group == GroupKeys(GroupName(idx))
          IN ShapeIn(store', path) # "missing" =>
                LET ckpt == torch_load(path, ShapeIn(store', path))
                IN /\ status' # "error"
                   /\ \A k \in group : k \notin DOMAIN ckpt => params'[k] = params[k]
                   /\ \A k \in ModelKeys : params'[k] # params[k] =>
                         k \in group /\ k \in DOMAIN ckpt /\ params'[k] = ckpt[k]]_vars

\* the second group has just been loaded from a checkpoint that lacks its
\* parameters, after a first group loaded from one with a key too many
C5_Witness ==
    /\ pc = "loop"
    /\ Len(reads) = 3
    /\ FileShape(reads[2]) = "extra"
    /\ FileShape(reads[3]) = "lacking"

\* C9: a group step changes the parameters of its own group at most, and
\* neither the logits nor the noise; after a successful
\* load_combination_weight the stem parameters equal the baseline
\* checkpoint's entries.
C9_GroupStepLocal ==
    /\ [][pc = "loop" =>
             /\ \A k \in ModelKeys \ GroupKeys(GroupName(idx)) : params'[k] = params[k]
             /\ alphas' = alphas
             /\ gumbel' = gumbel]_vars
    /\ []((status = "ok" /\ cur.op = "load_combination_weight") =>
             \A k \in StemKeys : params[k] = Stored(BaselinePath)[k])

\* a successful combination load whose groups all come from other files than
\* the baseline: the stem holds the baseline's entries, the groups do not
C9_Witness ==
    /\ status = "ok"
    /\ cur.op = "load_combination_weight"
    /\ GroupsComplete
    /\ \A i \in Rows : CandidatePath(i) # BaselinePath
    /\ \A k \in ModelKeys \ StemKeys : params[k] # Stored(BaselinePath)[k]

\* a load call has stopped at the read of a group checkpoint
FailedAtGroup == status = "error" /\ Len(reads) >= 2 /\ ~Readable(reads[Len(reads)])

\* the reads of a call that stopped at loop position j: the baseline, then
\* the group checkpoints up to the one that failed, each once
ReadsUpTo(j) == <<BaselinePath>> \o [n \in 1..(j + 1) |-> CandidatePath(n - 1)]

\* C10 as stated: when the read of the j-th group checkpoint fails, the call
\* stops there; every group before j holds its own checkpoint's values and
\* group j and every later group hold the values the baseline load left.
C10_Original ==
    FailedAtGroup =>
        LET j == Len(reads) - 2
        IN /\ pc = "idle"
           /\ reads = ReadsUpTo(j)
           /\ \A i \in Rows : \A k \in GroupKeys(GroupName(i)) :
                 IF i < j
                 THEN k \in DOMAIN Stored(CandidatePath(i))
                      /\ params[k] = Stored(CandidatePath(i))[k]
                 ELSE params[k] = base[k]

\* C10: when the read of the j-th group checkpoint fails, the call stops
\* there without another attempt; a parameter of a group before j holds its
\* group checkpoint's entry if that checkpoint has one and the value the
\* baseline load left otherwise; group j and every later group hold the
\* values the baseline load left.
C10_PartialLoad ==
    FailedAtGroup =>
        LET j == Len(reads) - 2
        IN /\ pc = "idle"
           /\ reads = ReadsUpTo(j)
           /\ \A i \in Rows : \A k \in GroupKeys(GroupName(i)) :
                 IF i < j /\ k \in DOMAIN Stored(CandidatePath(i))
                 THEN params[k] = Stored(CandidatePath(i))[k]
                 ELSE params[k] = base[k]

\* a call stopped at the fourth group, after the second group was loaded
\* from a checkpoint that lacks its parameters
C10_Witness ==
    /\ FailedAtGroup
    /\ Len(reads) = 5
    /\ FileShape(reads[3]) = "lacking"
    /\ params # base

\* the call in cur has succeeded, and so did, before it, a call of the other
\* entry point for the same combination, folder and name
BothSucceeded ==
    /\ status = "ok"
    /\ done.call.op # "none"
    /\ done.call.op # cur.op
    /\ done.call.comb = cur.comb
    /\ done.call.folder = cur.folder
    /\ done.call.name = cur.name

GroupParams == ModelKeys \ StemKeys

\* C8 as stated: when load_gumbel_weight samples the combination c and
\* load_combination_weight is called with c, the default folder and the
\* default name, and both succeed, they leave identical block-group
\* parameters.
C8_Original ==
    BothSucceeded => \A k \in GroupParams : params[k] = done.params[k]

\* C8: the two entry points leave identical block-group parameters for the
\* same combination, folder and name when both succeed and every group
\* checkpoint holds all parameters of its group.
C8_SameGroupsWhenComplete ==
    (BothSucceeded /\ GroupsComplete) => \A k \in GroupParams : params[k] = done.params[k]

\* load_gumbel_weight, then load_combination_weight with the combination it
\* returned: both succeeded on complete group checkpoints of two candidates
C8_Witness ==
    /\ BothSucceeded
    /\ GroupsComplete
    /\ cur.op = "load_combination_weight"
    /\ \E i, j \in Rows : cur.comb[i] # cur.comb[j]

====
